---------------------------- MODULE Spec2Model ----------------------------
(***************************************************************************)
(* A model of secenum: the coordinator SystemEnumerator and its three      *)
(* collectors AptPackageManager, ServiceEnumerator and SystemInfoGatherer. *)
(*                                                                         *)
(* The host (package database, process manager, files) is the environment. *)
(* Every external command has an outcome: it exits ("ok" with status 0,    *)
(* "nonzero" otherwise), runs out of time ("timeout"), fails inside the    *)
(* subprocess layer ("suberr", a SubprocessError) or cannot be started     *)
(* ("oserror", an OSError such as FileNotFoundError for a missing tool).   *)
(*                                                                         *)
(* Specifications:                                                         *)
(*   SpecCtor  construction of the coordinator on any host                 *)
(*   SpecPkg   the operations of one AptPackageManager                     *)
(*   SpecSvc   the operations of one ServiceEnumerator                     *)
(*   SpecInfo  the operations of one SystemInfoGatherer                    *)
(*   Spec      the operations of the coordinators on a changing host       *)
(***************************************************************************)
EXTENDS Integers, Sequences, FiniteSets, TLC

VARIABLES
    \* ---- host facts read at construction
    platformSystem,   \* what platform.system() returns
    osRelease,        \* /etc/os-release: "missing", "noid" or the value of ID
    dpkgStatusFile,   \* /var/lib/dpkg/status exists
    systemdRun,       \* /run/systemd/system exists
    \* ---- one construction of SystemEnumerator
    enumerator,       \* [state, raised, system, components]
    enumeratorUsed,   \* an operation was invoked on the constructed object
    \* ---- the host's package database
    dpkgDb,           \* package -> its dpkg status, or "absent"
    dpkgQueryFails,   \* the database cannot be listed: dpkg-query -W exits non-zero
    \* ---- one AptPackageManager and the call it is executing
    pmPc,             \* "idle", "list", "loop", "done"
    pmOp,             \* the operation called
    pmArg,            \* verify_package: the package name
    pmListed,         \* the listing command exited with status 0
    pmStdout,         \* the lines of the listing
    pmI,              \* the line the loop is at
    pmPackages,       \* the mapping built so far
    pmCmds,           \* the outcomes of the per-package commands of this call
    pmRet,            \* [kind, exc, flag]: how the call ended
    \* ---- the host's APT source files and their verification
    srcFiles,         \* path -> [exists, readable, lines]
    srcResults,       \* what verify_repository_sources returned, or NoResults
    \* ---- the host's process manager and unit files
    hostSvc,          \* service -> [listed, active, user, unit, confined]
    systemctlFails,   \* systemctl list-units exits non-zero
    macKind,          \* "apparmor", "selinux" or "none": which framework directory exists
    \* ---- one ServiceEnumerator and the call it is executing
    svcPc,            \* "idle", "list", "loop", "done"
    svcOp,            \* the operation called
    svcArg,           \* analyze_service_security: the service name
    svcListCmd,       \* the outcome of the list command of this call
    svcStdout,        \* the unit names of the listing, in order
    svcI,             \* the line the loop is at
    svcServices,      \* the mapping built so far
    svcChecks,        \* analyze_service_security: the mapping returned
    svcLog,           \* the error logged by this call, or "none"
    svcCmds,          \* the outcomes of the commands of the last _get_service_info
    svcRet,           \* [kind, exc, flag]: how the call ended
    \* ---- the host's files and tools read by the SystemInfoGatherer
    hostGen,          \* how often the host has changed: what /proc/uptime shows
    files,            \* pseudo-file -> "ok", "empty", "missing" or "denied"
    ufw,              \* the firewall tool: "active", "inactive", "absent"
    sshActive,        \* systemctl is-active ssh exits 0
    sshdConfig,       \* "no", "yes", "missing" or "denied": PermitRootLogin
    macConfig,        \* [selinux, apparmor]: /etc/selinux/config, /etc/apparmor.d exist
    \* ---- one SystemInfoGatherer
    sysCache,         \* _system_info: NoSnapshot or the cached snapshot
    infoLog,          \* the get_system_info calls so far: [kind, exc, value, reads, at]
    secInfo,          \* what the last get_security_info call gave: [raised, info]
    \* ---- the failures of external commands
    budgeted,         \* the number of failing commands is bounded in this run
    faults,           \* the per-item commands that did not succeed so far
    \* ---- the coordinators, the call in progress and the calls made
    co,               \* coordinator -> [cache, result]: its gatherer's snapshot and
                      \* its EnumerationResult
    call,             \* [coord, op, pc, k, gen0, failed]: the call in progress
    loc,              \* the local variables of the call in progress
    log               \* the calls that ended: what the caller of each received

ctorVars == <<platformSystem, osRelease, dpkgStatusFile, systemdRun,
              enumerator, enumeratorUsed>>

hostPkgVars == <<dpkgDb, dpkgQueryFails>>

pmVars == <<pmPc, pmOp, pmArg, pmListed, pmStdout, pmI, pmPackages, pmCmds, pmRet>>

srcVars == <<srcFiles, srcResults>>

hostSvcVars == <<hostSvc, systemctlFails, macKind>>

svcVars == <<svcPc, svcOp, svcArg, svcListCmd, svcStdout, svcI, svcServices,
             svcChecks, svcLog, svcCmds, svcRet>>

hostInfoVars == <<hostGen, files, ufw, sshActive, sshdConfig, macConfig>>

infoVars == <<sysCache, infoLog, secInfo>>

faultVars == <<budgeted, faults>>

coVars == <<co, call, loc, log>>

vars == <<ctorVars, hostPkgVars, pmVars, srcVars, hostSvcVars, svcVars,
          hostInfoVars, infoVars, faultVars, coVars>>

\* what the actions of one component leave alone
exceptCtor == <<hostPkgVars, pmVars, srcVars, hostSvcVars, svcVars, hostInfoVars,
                infoVars, faultVars, coVars>>
exceptPm   == <<ctorVars, srcVars, hostSvcVars, svcVars, hostInfoVars, infoVars,
                coVars>>
exceptSvc  == <<ctorVars, hostPkgVars, pmVars, srcVars, hostInfoVars, infoVars,
                coVars>>
exceptInfo == <<enumerator, enumeratorUsed, platformSystem, dpkgStatusFile,
                systemdRun, hostPkgVars, pmVars, srcVars, hostSvcVars, svcVars,
                faultVars, coVars>>
exceptSrc  == <<ctorVars, hostPkgVars, pmVars, hostSvcVars, svcVars, hostInfoVars,
                infoVars, faultVars, coVars>>
hostVars   == <<ctorVars, hostPkgVars, srcVars, hostSvcVars, hostInfoVars>>

-----------------------------------------------------------------------------
(* Strings and str.lower()                                                 *)

PlatformNames == {"Linux", "Darwin", "Windows"}

OsReleaseIds == {"debian", "Debian", "ubuntu", "Ubuntu", "fedora", "arch"}

\* str.lower() on the strings the model uses
Lower(s) ==
    CASE s = "Linux"   -> "linux"
      [] s = "Darwin"  -> "darwin"
      [] s = "Windows" -> "windows"
      [] s = "Debian"  -> "debian"
      [] s = "Ubuntu"  -> "ubuntu"
      [] OTHER         -> s

-----------------------------------------------------------------------------
(* Construction: SystemInfoGatherer._get_distribution_info,                *)
(* is_debian_based, AptPackageManager.__init__, ServiceEnumerator.__init__ *)
(* and SystemEnumerator._init_components                                   *)

\* the distribution id: "unknown" when the file is missing or has no ID line
get_distribution_id(osr) ==
    IF osr \in {"missing", "noid"} THEN "unknown" ELSE osr

is_debian_based(osr) ==
    Lower(get_distribution_id(osr)) \in {"debian", "ubuntu"}

\* AptPackageManager.__init__: what it raises
AptPackageManager_init(dpkgFile) ==
    IF ~dpkgFile THEN "PackageManagerException" ELSE "none"

\* ServiceEnumerator.__init__ / _verify_systemd: what it raises
ServiceEnumerator_init(sysd) ==
    IF ~sysd THEN "RuntimeError" ELSE "none"

\* a mutant: any distribution falls through to the apt variant
init_components_fallback(system, osr, dpkgFile, sysd) ==
    IF system # "linux" THEN "NotImplementedError"
    ELSE IF AptPackageManager_init(dpkgFile) # "none"
         THEN AptPackageManager_init(dpkgFile)
    ELSE ServiceEnumerator_init(sysd)

\* SystemEnumerator._init_components: the exception raised, or "none"
init_components(system, osr, dpkgFile, sysd) ==
    IF system # "linux" THEN "NotImplementedError"
    ELSE IF is_debian_based(osr)
         THEN IF AptPackageManager_init(dpkgFile) # "none"
              THEN AptPackageManager_init(dpkgFile)
              ELSE ServiceEnumerator_init(sysd)
         ELSE "NotImplementedError"

NoEnumerator == [state |-> "none", raised |-> "none", system |-> "none"]

\* SystemEnumerator.__init__
Construct ==
    /\ enumerator.state = "none"
    /\ LET system == Lower(platformSystem)
           exc    == init_components(system, osRelease, dpkgStatusFile, systemdRun)
       IN enumerator' = [state  |-> IF exc = "none" THEN "ready" ELSE "failed",
                         raised |-> exc,
                         system |-> system]
    /\ UNCHANGED <<platformSystem, osRelease, dpkgStatusFile, systemdRun,
                   enumeratorUsed>>
    /\ UNCHANGED exceptCtor

\* the caller invokes an operation: only an object whose constructor
\* returned exists
UseEnumerator ==
    /\ enumerator.state = "ready"
    /\ ~enumeratorUsed
    /\ enumeratorUsed' = TRUE
    /\ UNCHANGED <<platformSystem, osRelease, dpkgStatusFile, systemdRun,
                   enumerator>>
    /\ UNCHANGED exceptCtor

-----------------------------------------------------------------------------
(* External commands                                                       *)

Outcome == {"ok", "nonzero", "timeout", "suberr", "oserror"}

\* the exit status of a command that ran to its end
returncode(o) == IF o = "ok" THEN 0 ELSE 1

\* PackageManagerInterface.execute_command: the exception it raises, or
\* "none".  TimeoutExpired and SubprocessError are wrapped; an OSError of
\* Popen (the tool is not installed) is neither and passes through.
execute_command(o) ==
    CASE o \in {"timeout", "suberr"} -> "PackageManagerException"
      [] o = "oserror"               -> "OSError"
      [] OTHER                       -> "none"

MaxFaults == 1

Exits == {"ok", "nonzero"}
Fails == {"timeout", "suberr", "oserror"}

\* a listing command exits as the host decides; it is the failure to run it
\* to its end that counts
ListCost(o) == IF o \in Fails THEN 1 ELSE 0

\* the commands of a run that did not exit with status 0
Cost(run) == Cardinality({i \in 1 .. Len(run) : run[i] \notin {"ok", "none"}})

\* n more commands fail
Spend(n) ==
    /\ ~budgeted \/ faults + n <= MaxFaults
    /\ faults' = IF budgeted THEN faults + n ELSE faults
    /\ UNCHANGED budgeted

-----------------------------------------------------------------------------
(* AptPackageManager                                                       *)

MaxPkgs == 2

Pkgs == 1 .. MaxPkgs

\* the ${Status} field of dpkg-query, cut into pieces no finer than the
\* search for "installed" needs: "installed" is the piece "install" followed
\* by the piece "ed", also at the end of "not-installed" and "half-installed"
StatusText(st) ==
    CASE st = "installed"      -> <<"install", " ", "ok", " ", "install", "ed">>
      [] st = "half-installed" -> <<"install", " ", "ok", " ", "half-", "install", "ed">>
      [] st = "not-installed"  -> <<"unknown", " ", "ok", " ", "not-", "install", "ed">>
      [] st = "config-files"   -> <<"de", "install", " ", "ok", " ", "config-files">>
      [] st = "unpacked"       -> <<"install", " ", "ok", " ", "unpacked">>

DpkgStates == {"installed", "half-installed", "not-installed", "config-files", "unpacked"}

\* Python's `needle in hay` on texts given as sequences of pieces
Contains(needle, hay) ==
    \E i \in 1 .. (Len(hay) - Len(needle) + 1) :
        SubSeq(hay, i, i + Len(needle) - 1) = needle

\* one line of dpkg-query -W -f=... split at the tabs
ListingFields(p, st) ==
    <<p, "version", "arch", StatusText(st), "maintainer", "description">>

\* installed packages whose record does not print as one six-field line: a
\* description with a tab in it gives a line of seven fields, a description
\* of several lines gives a six-field line followed by a continuation line
DescriptionKinds == {"tabbed", "multiline"}

\* the lines dpkg-query prints for package p, each split at the tabs
ListingLines(p, st) ==
    CASE st = "tabbed"    -> << <<p, "version", "arch", StatusText("installed"),
                                  "maintainer", "descrip", "tion">> >>
      [] st = "multiline" -> << ListingFields(p, "installed"), <<" continuation">> >>
      [] OTHER            -> << ListingFields(p, st) >>

RECURSIVE ListingFrom(_, _)
ListingFrom(db, p) ==
    IF p > MaxPkgs THEN <<>>
    ELSE IF db[p] = "absent" THEN ListingFrom(db, p + 1)
    ELSE ListingLines(p, db[p]) \o ListingFrom(db, p + 1)

\* the stdout of the listing command: one line per package of the database
DpkgQueryStdout(db) == ListingFrom(db, 1)

NoPackages == [q \in {} |-> 0]

\* AptPackageManager._verify_package_signature: [raised, value]
verify_package_signature(o) ==
    LET exc == execute_command(o)
    IN IF exc = "PackageManagerException" THEN [raised |-> "none", value |-> FALSE]
       ELSE IF exc # "none" THEN [raised |-> exc, value |-> FALSE]
       ELSE [raised |-> "none", value |-> returncode(o) = 0]

\* a mutant: the file-integrity check is not consulted
verify_package_signature_only(oVerify, oSig) ==
    verify_package_signature(oSig)

\* AptPackageManager.verify_package: [raised, value]
verify_package(oVerify, oSig) ==
    LET exc == execute_command(oVerify)
    IN IF exc # "none" THEN [raised |-> exc, value |-> FALSE]
       ELSE IF returncode(oVerify) # 0 THEN [raised |-> "none", value |-> FALSE]
       ELSE verify_package_signature(oSig)

\* the test of the status field in the loop of get_installed_packages
status_is_installed(status) == Contains(<<"install", "ed">>, status)

\* a mutant: the unpacking of the fields is outside the try
installed_packages_line_strict(packages, fields, oSize, oSig) ==
    IF Len(fields) # 6
    THEN [raised |-> "ValueError", packages |-> packages]
    ELSE IF ~status_is_installed(fields[4])
    THEN [raised |-> "none", packages |-> packages]
    ELSE IF execute_command(oSize) # "none"
    THEN [raised |-> execute_command(oSize), packages |-> packages]
    ELSE LET sig  == verify_package_signature(oSig)
             pkg  == fields[1]
             info == [name            |-> pkg,
                      size            |-> IF oSize = "ok" THEN pkg * 1024 ELSE -1,
                      signature_valid |-> sig.value]
         IN IF sig.raised # "none"
            THEN [raised |-> sig.raised, packages |-> packages]
            ELSE [raised   |-> "none",
                  packages |-> [q \in (DOMAIN packages) \cup {pkg} |->
                                   IF q = pkg THEN info ELSE packages[q]]]

\* one iteration of the loop of get_installed_packages on `fields`, with the
\* outcomes of the size query and of the signature query:
\* [raised, packages]
installed_packages_line(packages, fields, oSize, oSig) ==
    IF Len(fields) # 6
    THEN [raised |-> "none", packages |-> packages]          \* ValueError: skipped
    ELSE IF ~status_is_installed(fields[4])
    THEN [raised |-> "none", packages |-> packages]          \* continue
    ELSE IF execute_command(oSize) # "none"
    THEN [raised |-> execute_command(oSize), packages |-> packages]
    ELSE LET sig  == verify_package_signature(oSig)
             pkg  == fields[1]
             info == [name            |-> pkg,
                      size            |-> IF oSize = "ok" THEN pkg * 1024 ELSE -1,
                      signature_valid |-> sig.value]
         IN IF sig.raised # "none"
            THEN [raised |-> sig.raised, packages |-> packages]
            ELSE [raised   |-> "none",
                  packages |-> [q \in (DOMAIN packages) \cup {pkg} |->
                                   IF q = pkg THEN info ELSE packages[q]]]

NoRet == [kind |-> "none", exc |-> "none", flag |-> FALSE]
Raised(exc) == [kind |-> "raised", exc |-> exc, flag |-> FALSE]
Returned(flag) == [kind |-> "returned", exc |-> "none", flag |-> flag]

NoCmds == [size |-> "none", sig |-> "none", verify |-> "none"]

\* the outcomes the listing command can have on this host
ListOutcomes(fails) ==
    (IF fails THEN {"nonzero"} ELSE {"ok"}) \cup Fails

\* the call of get_installed_packages begins
pm_call_get_installed_packages ==
    /\ pmPc' = "list"
    /\ pmOp' = "get_installed_packages"
    /\ pmArg' = 0
    /\ pmListed' = FALSE
    /\ pmStdout' = <<>>
    /\ pmI' = 0
    /\ pmPackages' = NoPackages
    /\ pmCmds' = NoCmds
    /\ pmRet' = NoRet

\* get_installed_packages, the listing command and the test of its status
pm_list ==
    /\ pmPc = "list"
    /\ \E o \in ListOutcomes(dpkgQueryFails) :
          /\ Spend(ListCost(o))
          /\ IF execute_command(o) # "none"
             THEN /\ pmRet' = Raised(execute_command(o))
                  /\ pmPc' = "done"
                  /\ UNCHANGED <<pmListed, pmStdout, pmI>>
             ELSE IF returncode(o) # 0
             THEN /\ pmRet' = Raised("PackageManagerException")
                  /\ pmPc' = "done"
                  /\ UNCHANGED <<pmListed, pmStdout, pmI>>
             ELSE /\ pmListed' = TRUE
                  /\ pmStdout' = DpkgQueryStdout(dpkgDb)
                  /\ pmI' = 1
                  /\ IF DpkgQueryStdout(dpkgDb) = <<>>
                     THEN pmPc' = "done" /\ pmRet' = Returned(FALSE)
                     ELSE pmPc' = "loop" /\ UNCHANGED pmRet
    /\ UNCHANGED <<pmOp, pmArg, pmPackages, pmCmds>>
    /\ UNCHANGED <<hostPkgVars, exceptPm>>

\* get_installed_packages, one iteration of the loop over the lines; after
\* the last line the mapping is returned
pm_loop ==
    /\ pmPc = "loop"
    /\ \E oSize \in Outcome, oSig \in Outcome :
          LET fields == pmStdout[pmI]
              ran    == Len(fields) = 6 /\ status_is_installed(fields[4])
              step   == installed_packages_line(pmPackages, fields, oSize, oSig)
          IN /\ ran \/ (oSize = "ok" /\ oSig = "ok")
             /\ (ran /\ execute_command(oSize) # "none") => oSig = "ok"
             /\ Spend(Cost(<<oSize, oSig>>))
             /\ pmCmds' = IF ran
                          THEN [pmCmds EXCEPT !.size = oSize,
                                              !.sig = IF execute_command(oSize) = "none"
                                                      THEN oSig ELSE "none"]
                          ELSE pmCmds
             /\ IF step.raised # "none"
                THEN /\ pmRet' = Raised(step.raised)
                     /\ pmPc' = "done"
                     /\ UNCHANGED <<pmPackages, pmI>>
                ELSE /\ pmPackages' = step.packages
                     /\ pmI' = pmI + 1
                     /\ IF pmI = Len(pmStdout)
                        THEN pmPc' = "done" /\ pmRet' = Returned(FALSE)
                        ELSE pmPc' = "loop" /\ UNCHANGED pmRet
    /\ UNCHANGED <<pmOp, pmArg, pmListed, pmStdout>>
    /\ UNCHANGED <<hostPkgVars, exceptPm>>

\* the outcomes `dpkg --verify name` can have: it cannot succeed on a
\* package the database does not know
VerifyOutcomes(db, p) ==
    IF db[p] = "absent" THEN Outcome \ {"ok"} ELSE Outcome

\* a caller invokes get_installed_packages on the manager
PkgGetInstalled ==
    /\ pmPc \in {"idle", "done"}
    /\ pm_call_get_installed_packages
    /\ UNCHANGED <<hostPkgVars, exceptPm, faultVars>>

\* a caller invokes verify_package(p): the whole call
PkgVerify ==
    /\ pmPc \in {"idle", "done"}
    /\ \E p \in Pkgs : \E oVerify \in VerifyOutcomes(dpkgDb, p), oSig \in Outcome :
          LET r   == verify_package(oVerify, oSig)
              sig == execute_command(oVerify) = "none" /\ returncode(oVerify) = 0
          IN /\ sig \/ oSig = "ok"
             /\ Spend(Cost(<<oVerify, oSig>>))
             /\ pmOp' = "verify_package"
             /\ pmArg' = p
             /\ pmCmds' = [size |-> "none", verify |-> oVerify,
                           sig |-> IF sig THEN oSig ELSE "none"]
             /\ pmRet' = IF r.raised # "none" THEN Raised(r.raised)
                         ELSE Returned(r.value)
    /\ pmPc' = "done"
    /\ pmListed' = FALSE
    /\ pmStdout' = <<>>
    /\ pmI' = 0
    /\ pmPackages' = NoPackages
    /\ UNCHANGED <<hostPkgVars, exceptPm>>

-----------------------------------------------------------------------------
(* ServiceEnumerator                                                       *)

MaxSvcs == 2

Svcs == 1 .. MaxSvcs

\* ServiceEnumerator._execute_command: the exception it raises, or "none"
svc_execute_command(o) ==
    CASE o \in {"timeout", "suberr"} -> "RuntimeError"
      [] o = "oserror"               -> "OSError"
      [] OTHER                       -> "none"

\* the text of a unit file, in pieces no finer than the directive scan needs
UnitText(unit) ==
    CASE unit = "plain"     -> <<"ExecStart=", "/usr/sbin/daemon", "\n">>
      [] unit = "hardened2" -> <<"ProtectSystem=", "strict", "\n",
                                 "NoNewPrivileges=", "yes", "\n">>
      [] unit = "hardened4" -> <<"ProtectSystem=", "strict", "\n",
                                 "PrivateTmp=", "yes", "\n",
                                 "NoNewPrivileges=", "yes", "\n",
                                 "RestrictNamespaces=", "yes", "\n">>
      [] OTHER              -> <<>>

UnitKinds == {"missing", "unreadable", "plain", "hardened2", "hardened4"}

\* the runs of the commands of one _get_service_info: <<show, list-dependencies,
\* first context command, second context command>>, "none" for a command that
\* is not reached
NoRun == <<"none", "none", "none", "none">>

InfoRunsNoMac ==
    {<<a, "none", "none", "none">> : a \in Fails}
    \cup {<<a, b, "none", "none">> : a \in Exits, b \in Outcome}

InfoRunsAppArmor ==
    {<<a, "none", "none", "none">> : a \in Fails}
    \cup {<<a, b, "none", "none">> : a \in Exits, b \in Fails}
    \cup {<<a, b, c, "none">> : a \in Exits, b \in Exits, c \in Outcome}

InfoRunsSELinux ==
    {<<a, "none", "none", "none">> : a \in Fails}
    \cup {<<a, b, "none", "none">> : a \in Exits, b \in Fails}
    \cup {<<a, b, c, "none">> : a \in Exits, b \in Exits, c \in Fails \cup {"nonzero"}}
    \cup {<<a, b, "ok", d>> : a \in Exits, b \in Exits, d \in Outcome \cup {"none"}}

InfoRuns(mac) ==
    CASE mac = "apparmor" -> InfoRunsAppArmor
      [] mac = "selinux"  -> InfoRunsSELinux
      [] OTHER            -> InfoRunsNoMac

\* a mutant: a property query that exits non-zero is an error
get_service_properties_strict(h, o) ==
    IF svc_execute_command(o) # "none"
    THEN [raised |-> svc_execute_command(o), has |-> FALSE,
          ActiveState |-> "", FragmentPath |-> "", User |-> ""]
    ELSE IF returncode(o) = 0
    THEN [raised |-> "none", has |-> TRUE,
          ActiveState |-> h.active,
          FragmentPath |-> IF h.unit = "missing" THEN "" ELSE "unitfile",
          User |-> h.user]
    ELSE [raised |-> "RuntimeError", has |-> FALSE,
          ActiveState |-> "", FragmentPath |-> "", User |-> ""]

\* ServiceEnumerator._get_service_properties on host record h:
\* [raised, has, ActiveState, FragmentPath, User]
get_service_properties(h, o) ==
    IF svc_execute_command(o) # "none"
    THEN [raised |-> svc_execute_command(o), has |-> FALSE,
          ActiveState |-> "", FragmentPath |-> "", User |-> ""]
    ELSE IF returncode(o) = 0
    THEN [raised |-> "none", has |-> TRUE,
          ActiveState |-> h.active,
          FragmentPath |-> IF h.unit = "missing" THEN "" ELSE "unitfile",
          User |-> h.user]
    ELSE [raised |-> "none", has |-> FALSE,
          ActiveState |-> "", FragmentPath |-> "", User |-> ""]

\* ServiceEnumerator._get_security_context: [raised, context], context "" for None
get_security_context(h, mac, oCtx1, oCtx2) ==
    IF mac = "apparmor"
    THEN IF svc_execute_command(oCtx1) # "none"
         THEN [raised |-> svc_execute_command(oCtx1), context |-> ""]
         ELSE [raised |-> "none",
               context |-> IF returncode(oCtx1) = 0 /\ h.confined
                           THEN "AppArmor" ELSE ""]
    ELSE IF mac = "selinux"
    THEN LET props == get_service_properties(h, oCtx1)
         IN IF props.raised # "none"
            THEN [raised |-> props.raised, context |-> ""]
            ELSE IF ~(props.has /\ props.ActiveState = "active")
            THEN [raised |-> "none", context |-> ""]          \* no MainPID
            ELSE IF svc_execute_command(oCtx2) # "none"
            THEN [raised |-> svc_execute_command(oCtx2), context |-> ""]
            ELSE [raised |-> "none",
                  context |-> IF returncode(oCtx2) = 0 /\ h.confined
                              THEN "SELinux" ELSE ""]
    ELSE [raised |-> "none", context |-> ""]

NoServiceInfo ==
    [name |-> 0, status |-> "", unit_file |-> "", user |-> "",
     security_context |-> ""]

\* ServiceEnumerator._get_service_info for service s with host record h and
\* the run of its commands: [raised, info].  The dependency list is queried
\* (and can raise) but is not kept in the modelled record.
get_service_info(s, h, mac, run) ==
    LET props == get_service_properties(h, run[1])
        ctx   == get_security_context(h, mac, run[3], run[4])
    IN IF props.raised # "none"
       THEN [raised |-> props.raised, info |-> NoServiceInfo]
       ELSE IF svc_execute_command(run[2]) # "none"
       THEN [raised |-> svc_execute_command(run[2]), info |-> NoServiceInfo]
       ELSE IF ctx.raised # "none"
       THEN [raised |-> ctx.raised, info |-> NoServiceInfo]
       ELSE [raised |-> "none",
             info   |-> [name             |-> s,
                         status           |-> IF props.has THEN props.ActiveState
                                              ELSE "unknown",
                         unit_file        |-> props.FragmentPath,
                         user             |-> props.User,
                         security_context |-> ctx.context]]

\* dict.update
Update(d, u) ==
    [k \in (DOMAIN d) \cup (DOMAIN u) |-> IF k \in DOMAIN u THEN u[k] ELSE d[k]]

NoChecks == [k \in {} |-> FALSE]

\* a mutant: the scan result is stored under the directive's name
directive_checks_renamed(content) ==
    [ProtectSystem      |-> Contains(<<"ProtectSystem=", "strict">>, content),
     private_tmp        |-> Contains(<<"PrivateTmp=", "yes">>, content),
     no_new_privileges  |-> Contains(<<"NoNewPrivileges=", "yes">>, content),
     restricted_namespaces |-> Contains(<<"RestrictNamespaces=", "yes">>, content)]

\* the four directive checks of analyze_service_security on the unit text
directive_checks(content) ==
    [protected_mode     |-> Contains(<<"ProtectSystem=", "strict">>, content),
     private_tmp        |-> Contains(<<"PrivateTmp=", "yes">>, content),
     no_new_privileges  |-> Contains(<<"NoNewPrivileges=", "yes">>, content),
     restricted_namespaces |-> Contains(<<"RestrictNamespaces=", "yes">>, content)]

\* ServiceEnumerator.analyze_service_security: [raised, checks]
analyze_service_security(s, h, mac, run) ==
    LET r      == get_service_info(s, h, mac, run)
        checks == [runs_as_root          |-> r.info.user = "root",
                   has_security_policy   |-> r.info.security_context # "",
                   protected_mode        |-> FALSE,
                   private_tmp           |-> FALSE,
                   no_new_privileges     |-> FALSE,
                   restricted_namespaces |-> FALSE]
    IN IF r.raised # "none" THEN [raised |-> r.raised, checks |-> NoChecks]
       ELSE IF r.info.unit_file = "" \/ h.unit = "missing"
       THEN [raised |-> "none", checks |-> checks]           \* not os.path.exists
       ELSE IF h.unit = "unreadable"
       THEN [raised |-> "OSError", checks |-> NoChecks]      \* open() fails
       ELSE [raised |-> "none",
             checks |-> Update(checks, directive_checks(UnitText(h.unit)))]

\* the host records of a service the specifications start from
HostSvcChoices ==
    {[listed |-> FALSE, active |-> "inactive", user |-> "", unit |-> "missing",
      confined |-> FALSE],
     [listed |-> TRUE, active |-> "active", user |-> "root", unit |-> "hardened2",
      confined |-> TRUE],
     [listed |-> TRUE, active |-> "active", user |-> "www", unit |-> "plain",
      confined |-> FALSE],
     [listed |-> TRUE, active |-> "failed", user |-> "root", unit |-> "unreadable",
      confined |-> FALSE]}

RECURSIVE UnitsFrom(_, _)
UnitsFrom(hs, s) ==
    IF s > MaxSvcs THEN <<>>
    ELSE IF ~hs[s].listed THEN UnitsFrom(hs, s + 1)
    ELSE <<[unit |-> s, suffix |-> ".service", nfields |-> 5]>> \o UnitsFrom(hs, s + 1)

\* the stdout of systemctl list-units --type=service: one line per listed unit
ListUnitsStdout(hs) == UnitsFrom(hs, 1)

\* the outcomes the list command can have on this host
SvcListOutcomes(fails) ==
    (IF fails THEN {"nonzero"} ELSE {"ok"}) \cup Fails

\* a mutant: a listing that cannot be run is an empty listing
list_units_lenient(o) ==
    IF svc_execute_command(o) # "none" \/ returncode(o) # 0 THEN "empty"
    ELSE "none"

\* a mutant: a listing that exits non-zero is an error, as in the package manager
list_units_strict(o) ==
    IF svc_execute_command(o) # "none" THEN svc_execute_command(o)
    ELSE IF returncode(o) # 0 THEN "RuntimeError"
    ELSE "none"

\* get_all_services, the listing command: the exception raised, "empty" for
\* the early return of the empty mapping, or "none"
list_units(o) ==
    IF svc_execute_command(o) # "none" THEN svc_execute_command(o)
    ELSE IF returncode(o) # 0 THEN "empty"
    ELSE "none"

NoServices == [q \in {} |-> 0]

\* the call of get_all_services begins
svc_call_get_all_services ==
    /\ svcPc' = "list"
    /\ svcOp' = "get_all_services"
    /\ svcArg' = 0
    /\ svcListCmd' = "none"
    /\ svcStdout' = <<>>
    /\ svcI' = 0
    /\ svcServices' = NoServices
    /\ svcChecks' = NoChecks
    /\ svcLog' = "none"
    /\ svcCmds' = NoRun
    /\ svcRet' = NoRet

\* get_all_services, the listing command and the test of its status
svc_list ==
    /\ svcPc = "list"
    /\ \E o \in SvcListOutcomes(systemctlFails) :
          /\ svcListCmd' = o
          /\ Spend(ListCost(o))
          /\ IF list_units(o) = "empty"
             THEN /\ svcLog' = "error"
                  /\ svcRet' = Returned(FALSE)
                  /\ svcPc' = "done"
                  /\ UNCHANGED <<svcStdout, svcI>>
             ELSE IF list_units(o) # "none"
             THEN /\ svcRet' = Raised(list_units(o))
                  /\ svcPc' = "done"
                  /\ UNCHANGED <<svcStdout, svcI, svcLog>>
             ELSE /\ svcStdout' = ListUnitsStdout(hostSvc)
                  /\ svcI' = 1
                  /\ UNCHANGED svcLog
                  /\ IF ListUnitsStdout(hostSvc) = <<>>
                     THEN svcPc' = "done" /\ svcRet' = Returned(FALSE)
                     ELSE svcPc' = "loop" /\ UNCHANGED svcRet
    /\ UNCHANGED <<svcOp, svcArg, svcServices, svcChecks, svcCmds>>
    /\ UNCHANGED <<hostSvcVars, exceptSvc>>

\* get_all_services, one iteration of the loop over the lines; after the
\* last line the mapping is returned
svc_loop ==
    /\ svcPc = "loop"
    /\ LET line == svcStdout[svcI]
           name == line.unit
           more == IF svcI = Len(svcStdout) THEN "done" ELSE "loop"
       IN IF line.nfields >= 4 /\ line.suffix = ".service"
          THEN \E run \in InfoRuns(macKind) :
                  LET r == get_service_info(name, hostSvc[name], macKind, run)
                  IN /\ Spend(Cost(run))
                     /\ svcCmds' = run
                     /\ IF r.raised # "none"
                        THEN /\ svcRet' = Raised(r.raised)
                             /\ svcPc' = "done"
                             /\ UNCHANGED <<svcServices, svcI>>
                        ELSE /\ svcServices' =
                                   [q \in (DOMAIN svcServices) \cup {name} |->
                                       IF q = name THEN r.info ELSE svcServices[q]]
                             /\ svcI' = svcI + 1
                             /\ svcPc' = more
                             /\ svcRet' = IF more = "done" THEN Returned(FALSE)
                                          ELSE svcRet
          ELSE /\ svcI' = svcI + 1
               /\ svcPc' = more
               /\ svcRet' = IF more = "done" THEN Returned(FALSE) ELSE svcRet
               /\ svcCmds' = NoRun
               /\ UNCHANGED svcServices
               /\ UNCHANGED faultVars
    /\ UNCHANGED <<svcOp, svcArg, svcListCmd, svcStdout, svcChecks, svcLog>>
    /\ UNCHANGED <<hostSvcVars, exceptSvc>>

\* a caller invokes get_all_services on the enumerator
SvcGetAll ==
    /\ svcPc \in {"idle", "done"}
    /\ svc_call_get_all_services
    /\ UNCHANGED <<hostSvcVars, exceptSvc, faultVars>>

\* a caller invokes analyze_service_security(s): the whole call
SvcAnalyze ==
    /\ svcPc \in {"idle", "done"}
    /\ \E s \in Svcs : \E run \in InfoRuns(macKind) :
          LET r == analyze_service_security(s, hostSvc[s], macKind, run)
          IN /\ Spend(Cost(run))
             /\ svcArg' = s
             /\ svcCmds' = run
             /\ svcChecks' = r.checks
             /\ svcRet' = IF r.raised # "none" THEN Raised(r.raised)
                          ELSE Returned(FALSE)
    /\ svcOp' = "analyze_service_security"
    /\ svcPc' = "done"
    /\ svcListCmd' = "none"
    /\ svcStdout' = <<>>
    /\ svcI' = 0
    /\ svcServices' = NoServices
    /\ svcLog' = "none"
    /\ UNCHANGED <<hostSvcVars, exceptSvc>>

-----------------------------------------------------------------------------
(* SystemInfoGatherer                                                      *)

MaxInfoChanges == 3

MaxInfoCalls == 3

InfoFiles == {"cpuinfo", "meminfo", "passwd", "uptime", "stat"}

\* "empty": the file opens and has no line
FileStates == {"ok", "empty", "missing", "denied"}

\* open(path): only FileNotFoundError is caught by the sub-collectors
open_file(st) ==
    CASE st = "missing" -> "FileNotFoundError"
      [] st = "denied"  -> "OSError"
      [] OTHER          -> "none"

\* a sub-collector that reads one file: [raised, value]; onEmpty is what its
\* body does with a file that has no line
collect(st, value, fallback, onEmpty) ==
    IF open_file(st) = "FileNotFoundError" THEN [raised |-> "none", value |-> fallback]
    ELSE IF open_file(st) # "none" THEN [raised |-> open_file(st), value |-> fallback]
    ELSE IF st = "empty" THEN onEmpty
    ELSE [raised |-> "none", value |-> value]

\* the loop over the lines is not entered and the initial value is returned
Initial(value) == [raised |-> "none", value |-> value]

\* SystemInfoGatherer._get_distribution_info: [raised, value], value the
\* pair (ID, VERSION_ID)
get_distribution_info(osr) ==
    IF osr = "denied" THEN [raised |-> "OSError", value |-> <<"unknown", "unknown">>]
    ELSE IF osr = "missing" THEN [raised |-> "none", value |-> <<"unknown", "unknown">>]
    ELSE [raised |-> "none", value |-> <<get_distribution_id(osr), "12">>]

get_cpu_info(fs) ==
    collect(fs["cpuinfo"], "cpu attributes", "empty mapping", Initial("empty mapping"))

get_memory_info(fs) ==
    collect(fs["meminfo"], "memory sizes", "zero sizes", Initial("zero sizes"))

get_users(fs) ==
    collect(fs["passwd"], "user list", "empty list", Initial("empty list"))

\* f.readline().split()[0] of an empty file raises IndexError
get_uptime(fs, gen) ==
    collect(fs["uptime"], gen, "unknown", [raised |-> "IndexError", value |-> "unknown"])

\* with no btime line the function ends without a return statement
get_boot_time(fs) ==
    collect(fs["stat"], "btime", "epoch", Initial("None"))

NoSnapshot == [hostname |-> "none"]

\* the sub-collector calls of get_system_info, in the order of the keyword
\* arguments of SystemInfo(...)
collector_calls(osr, fs, gen) ==
    <<get_distribution_info(osr), get_distribution_info(osr), get_cpu_info(fs),
      get_memory_info(fs), get_users(fs), get_uptime(fs, gen), get_boot_time(fs)>>

\* the body of get_system_info after the cache test: [kind, exc, value, reads],
\* reads the number of sub-collector calls made
collect_system_info(osr, fs, gen) ==
    LET calls == collector_calls(osr, fs, gen)
        bad   == {i \in 1 .. Len(calls) : calls[i].raised # "none"}
        first == CHOOSE i \in bad : \A j \in bad : i <= j
    IN IF bad # {}
       THEN [kind |-> "raised", exc |-> calls[first].raised,
             value |-> NoSnapshot, reads |-> first]
       ELSE [kind  |-> "returned", exc |-> "none",
             value |-> [hostname             |-> "host",
                        kernel_version       |-> "kernel",
                        distribution         |-> calls[1].value[1],
                        distribution_version |-> calls[2].value[2],
                        architecture         |-> "x86_64",
                        cpu_info             |-> calls[3].value,
                        memory_info          |-> calls[4].value,
                        users                |-> calls[5].value,
                        uptime               |-> calls[6].value,
                        boot_time            |-> calls[7].value],
             reads |-> Len(calls)]

\* a mutant: the cached snapshot is not consulted
get_system_info_uncached(cache, osr, fs, gen) ==
    LET r == collect_system_info(osr, fs, gen)
    IN [kind |-> r.kind, exc |-> r.exc, value |-> r.value, reads |-> r.reads,
        cache |-> IF r.kind = "returned" THEN r.value ELSE cache]

\* SystemInfoGatherer.get_system_info: [kind, exc, value, reads, cache], cache
\* the new _system_info
get_system_info(cache, osr, fs, gen) ==
    IF cache # NoSnapshot
    THEN [kind |-> "returned", exc |-> "none", value |-> cache, reads |-> 0,
          cache |-> cache]
    ELSE LET r == collect_system_info(osr, fs, gen)
         IN [kind |-> r.kind, exc |-> r.exc, value |-> r.value, reads |-> r.reads,
             cache |-> IF r.kind = "returned" THEN r.value ELSE cache]

\* the stdout of `ufw status`, lower-cased, in pieces
UfwStdout(state) ==
    IF state = "active" THEN <<"status: ", "active">>
    ELSE <<"status: ", "in", "active">>

\* SystemInfoGatherer._check_firewall_status
check_firewall_status(state) ==
    IF state = "absent" THEN FALSE                    \* FileNotFoundError
    ELSE Contains(<<"active">>, UfwStdout(state))

\* SystemInfoGatherer._check_root_login_disabled: [raised, value]
check_root_login_disabled(cfg) ==
    IF cfg = "denied" THEN [raised |-> "OSError", value |-> FALSE]
    ELSE [raised |-> "none", value |-> cfg = "no"]

\* SystemInfoGatherer.get_security_info: [raised, info]
get_security_info(mc, fw, ssh, cfg) ==
    IF check_root_login_disabled(cfg).raised # "none"
    THEN [raised |-> check_root_login_disabled(cfg).raised,
          info   |-> [k \in {} |-> FALSE]]
    ELSE [raised |-> "none",
          info   |-> [selinux_enabled     |-> mc.selinux,
                      apparmor_enabled    |-> mc.apparmor,
                      firewall_enabled    |-> check_firewall_status(fw),
                      ssh_running         |-> ssh,
                      root_login_disabled |-> check_root_login_disabled(cfg).value]]

\* the host changes: time passes, and one of the files the gatherer reads
\* may appear, disappear or change its permissions
InfoHostChange ==
    /\ hostGen < MaxInfoChanges
    /\ hostGen' = hostGen + 1
    /\ \/ UNCHANGED <<files, osRelease>>
       \/ /\ \E f \in InfoFiles, st \in FileStates : files' = [files EXCEPT ![f] = st]
          /\ UNCHANGED osRelease
       \/ /\ osRelease' \in {"debian", "ubuntu", "missing", "denied"}
          /\ UNCHANGED files
    /\ UNCHANGED <<ufw, sshActive, sshdConfig, macConfig, infoVars>>
    /\ UNCHANGED exceptInfo

\* a caller invokes get_system_info on the gatherer: the whole call
GetSystemInfo ==
    /\ Len(infoLog) < MaxInfoCalls
    /\ LET r == get_system_info(sysCache, osRelease, files, hostGen)
       IN /\ sysCache' = r.cache
          /\ infoLog' = Append(infoLog, [kind |-> r.kind, exc |-> r.exc,
                                         value |-> r.value, reads |-> r.reads,
                                         at |-> hostGen])
    /\ UNCHANGED <<hostInfoVars, osRelease, secInfo>>
    /\ UNCHANGED exceptInfo

NoSecInfo == [raised |-> "none", info |-> [k \in {} |-> FALSE]]

\* a caller invokes get_security_info on the gatherer: the whole call
GetSecurityInfo ==
    /\ secInfo = NoSecInfo
    /\ secInfo' = get_security_info(macConfig, ufw, sshActive, sshdConfig)
    /\ UNCHANGED <<hostInfoVars, osRelease, sysCache, infoLog>>
    /\ UNCHANGED exceptInfo

-----------------------------------------------------------------------------
(* SystemEnumerator: enumerate_all and analyze_security                    *)

MaxCalls == 2

MaxHostChanges == 1

Coords == {"first", "second"}

EmptyDict == [k \in {} |-> 0]

\* EnumerationResult.__init__ at time `now`
EnumerationResult(now) ==
    [timestamp |-> now, system_info |-> EmptyDict, packages |-> EmptyDict,
     services |-> EmptyDict, security_info |-> EmptyDict]

\* EnumerationResult.to_dict
to_dict(result) ==
    [timestamp     |-> result.timestamp,
     system_info   |-> result.system_info,
     packages      |-> result.packages,
     services      |-> result.services,
     security_info |-> result.security_info]

\* the part of the snapshot enumerate_all copies into the result
system_info_of(snap) ==
    [hostname     |-> snap.hostname,
     kernel       |-> snap.kernel_version,
     distribution |-> snap.distribution,
     version      |-> snap.distribution_version,
     architecture |-> snap.architecture,
     cpu_info     |-> snap.cpu_info,
     memory_info  |-> snap.memory_info]

\* setattr(service_info, "security_analysis", checks)
attach_security_analysis(info, checks) ==
    [k \in (DOMAIN info) \cup {"security_analysis"} |->
        IF k = "security_analysis" THEN checks ELSE info[k]]

\* display_security_analysis: the two counts of the package panel
verified_packages(pkg_security) ==
    Cardinality({p \in DOMAIN pkg_security : pkg_security[p]})

total_packages(pkg_security) == Cardinality(DOMAIN pkg_security)

\* the keys of a dict in the order they were inserted: the order of the listing
RECURSIVE KeysFrom(_, _, _)
KeysFrom(d, k, max) ==
    IF k > max THEN <<>>
    ELSE IF k \in DOMAIN d THEN <<k>> \o KeysFrom(d, k + 1, max)
    ELSE KeysFrom(d, k + 1, max)

NoValue == [nothing |-> TRUE]

NoCall == [coord |-> "none", op |-> "none", pc |-> "idle", k |-> 0, gen0 |-> 0,
           t0 |-> 0, stored0 |-> EmptyDict, failed |-> "none",
           failedStep |-> "none"]

\* trace: the collectors invoked so far, in order; done: the steps completed
NoLoc == [trace |-> <<>>, done |-> {}, security_info |-> EmptyDict,
          packages |-> EmptyDict, services |-> EmptyDict,
          names |-> <<>>, listings |-> 0, listed |-> <<>>,
          package_security |-> EmptyDict, service_security |-> EmptyDict,
          runs |-> EmptyDict]

\* the step an operation begins with
FirstPc(op) ==
    CASE op = "enumerate_all"      -> "system_info"
      [] op = "analyze_security"   -> "security_info"
      [] op = "enumerate_packages" -> "packages"
      [] op = "enumerate_services" -> "services"

\* a mutant: the narrow views store what they collect, as enumerate_all does
assigns_result_always(op) == TRUE

\* the operation assigns what it collects to the fields of self.result
assigns_result(op) == op = "enumerate_all"

\* a mutant: enumerate_all lists the packages before the security checks
NextPc_packages_first(op, pc) ==
    IF op = "enumerate_all"
    THEN CASE pc = "system_info"   -> "packages"
           [] pc = "packages"      -> "security_info"
           [] pc = "security_info" -> "services"
           [] pc = "services"      -> "analysis"
           [] pc = "analysis"      -> "return"
    ELSE IF op \in {"enumerate_packages", "enumerate_services"}
    THEN "return"
    ELSE CASE pc = "security_info" -> "services"
           [] pc = "services"      -> "packages"
           [] pc = "packages"      -> "verify"
           [] pc = "verify"        -> "analysis"
           [] pc = "analysis"      -> "return"

\* the order of the steps of the operations
NextPc(op, pc) ==
    IF op = "enumerate_all"
    THEN CASE pc = "system_info"   -> "security_info"
           [] pc = "security_info" -> "packages"
           [] pc = "packages"      -> "services"
           [] pc = "services"      -> "analysis"
           [] pc = "analysis"      -> "return"
    ELSE IF op \in {"enumerate_packages", "enumerate_services"}
    THEN "return"
    ELSE CASE pc = "security_info" -> "services"
           [] pc = "services"      -> "packages"
           [] pc = "packages"      -> "verify"
           [] pc = "verify"        -> "analysis"
           [] pc = "analysis"      -> "return"

\* a mutant: the handler logs the error and returns what was collected
enumerate_all_swallow(exc, result) ==
    [kind |-> "returned", exc |-> "none", value |-> to_dict(result)]

\* the except clause of enumerate_all: the error is logged and raised again
enumerate_all_except(exc, result) ==
    [kind |-> "raised", exc |-> exc, value |-> NoValue]

\* what the caller receives from a call in which exc was raised:
\* analyze_security has no handler
call_failed(op, exc, result) ==
    IF op = "enumerate_all" THEN enumerate_all_except(exc, result)
    ELSE [kind |-> "raised", exc |-> exc, value |-> NoValue]

\* the value a call returns
call_value(op, result, l) ==
    CASE op = "enumerate_all"      -> to_dict(result)
      [] op = "enumerate_packages" -> [packages |-> l.packages]
      [] op = "enumerate_services" -> [services |-> l.services]
      [] op = "analyze_security"   ->
             [system_security  |-> l.security_info,
              package_security |-> l.package_security,
              service_security |-> l.service_security]

\* what is kept of a call that ended: how it ended, the time and the host
\* generation at its start and end, its trace, and the coordinator's stored
\* result and snapshot at its start (stored0) and at its end (stored1)
LogEntry(outcome, gen1, stored1) ==
    [coord |-> call.coord, op |-> call.op, kind |-> outcome.kind,
     exc |-> outcome.exc, value |-> outcome.value, gen0 |-> call.gen0,
     gen1 |-> gen1, t0 |-> call.t0, trace |-> loc.trace, done |-> loc.done,
     failed |-> call.failed, failedStep |-> call.failedStep,
     listings |-> loc.listings, listed |-> loc.listed, runs |-> loc.runs,
     stored0 |-> call.stored0, stored1 |-> stored1, faults |-> faults]

Fail(step, exc) ==
    call' = [call EXCEPT !.pc = "except", !.failed = exc, !.failedStep = step]

\* the collector of `step` is invoked
Begin(l, step) == [l EXCEPT !.trace = Append(@, step)]

Advance(step) ==
    call' = [call EXCEPT !.pc = NextPc(call.op, step), !.k = 1]

ResetPm ==
    /\ pmPc' = "idle"
    /\ pmOp' = "none"
    /\ pmArg' = 0
    /\ pmListed' = FALSE
    /\ pmStdout' = <<>>
    /\ pmI' = 0
    /\ pmPackages' = NoPackages
    /\ pmCmds' = NoCmds
    /\ pmRet' = NoRet

ResetSvc ==
    /\ svcPc' = "idle"
    /\ svcOp' = "none"
    /\ svcArg' = 0
    /\ svcListCmd' = "none"
    /\ svcStdout' = <<>>
    /\ svcI' = 0
    /\ svcServices' = NoServices
    /\ svcChecks' = NoChecks
    /\ svcLog' = "none"
    /\ svcCmds' = NoRun
    /\ svcRet' = NoRet

\* a caller invokes op on coordinator c
CoCall(c, op) ==
    /\ call.op = "none"
    /\ Len(log) < MaxCalls
    /\ call' = [coord |-> c, op |-> op, pc |-> FirstPc(op), k |-> 1,
                gen0 |-> hostGen, t0 |-> Len(log) + 1, stored0 |-> co[c],
                failed |-> "none", failedStep |-> "none"]
    /\ loc' = NoLoc
    /\ UNCHANGED <<co, log, hostVars, pmVars, svcVars, infoVars, faultVars>>

EnumerateAll == \E c \in Coords : CoCall(c, "enumerate_all")

AnalyzeSecurity == \E c \in Coords : CoCall(c, "analyze_security")

EnumeratePackages == \E c \in Coords : CoCall(c, "enumerate_packages")

EnumerateServices == \E c \in Coords : CoCall(c, "enumerate_services")

\* enumerate_all: get_system_info and the copy into the result
co_system_info ==
    /\ call.pc = "system_info"
    /\ LET c == call.coord
           r == get_system_info(co[c].cache, osRelease, files, hostGen)
       IN IF r.kind = "raised"
          THEN /\ Fail("system_info", r.exc)
               /\ loc' = Begin(loc, "system_info")
               /\ UNCHANGED co
          ELSE /\ co' = [co EXCEPT ![c].cache = r.cache,
                                   ![c].result.system_info = system_info_of(r.value)]
               /\ loc' = [Begin(loc, "system_info") EXCEPT
                              !.done = @ \cup {"system_info"}]
               /\ Advance("system_info")
    /\ UNCHANGED <<log, hostVars, pmVars, svcVars, infoVars, faultVars>>

\* get_security_info, in both operations
co_security_info ==
    /\ call.pc = "security_info"
    /\ LET c == call.coord
           r == get_security_info(macConfig, ufw, sshActive, sshdConfig)
       IN IF r.raised # "none"
          THEN /\ Fail("security_info", r.raised)
               /\ loc' = Begin(loc, "security_info")
               /\ UNCHANGED co
          ELSE /\ co' = IF assigns_result(call.op)
                        THEN [co EXCEPT ![c].result.security_info = r.info]
                        ELSE co
               /\ loc' = [Begin(loc, "security_info") EXCEPT
                              !.done = @ \cup {"security_info"},
                              !.security_info = r.info]
               /\ Advance("security_info")
    /\ UNCHANGED <<log, hostVars, pmVars, svcVars, infoVars, faultVars>>

\* the call of get_installed_packages, in both operations
co_packages_call ==
    /\ call.pc = "packages"
    /\ pm_call_get_installed_packages
    /\ call' = [call EXCEPT !.pc = "packages_wait"]
    /\ loc' = [Begin(loc, "packages") EXCEPT !.listings = @ + 1]
    /\ UNCHANGED <<co, log, hostVars, svcVars, infoVars, faultVars>>

\* get_installed_packages has ended
co_packages_ret ==
    /\ call.pc = "packages_wait"
    /\ pmPc = "done"
    /\ LET c == call.coord
       IN IF pmRet.kind = "raised"
          THEN /\ Fail("packages", pmRet.exc)
               /\ UNCHANGED <<co, loc>>
          ELSE /\ co' = IF assigns_result(call.op)
                        THEN [co EXCEPT ![c].result.packages = pmPackages]
                        ELSE co
               /\ loc' = [loc EXCEPT !.done = @ \cup {"packages"},
                                     !.packages = pmPackages,
                                     !.listed = KeysFrom(pmPackages, 1, MaxPkgs)]
               /\ Advance("packages")
    /\ ResetPm
    /\ UNCHANGED <<log, hostVars, svcVars, infoVars, faultVars>>

\* the call of get_all_services, in both operations
co_services_call ==
    /\ call.pc = "services"
    /\ svc_call_get_all_services
    /\ call' = [call EXCEPT !.pc = "services_wait"]
    /\ loc' = Begin(loc, "services")
    /\ UNCHANGED <<co, log, hostVars, pmVars, infoVars, faultVars>>

\* get_all_services has ended
co_services_ret ==
    /\ call.pc = "services_wait"
    /\ svcPc = "done"
    /\ IF svcRet.kind = "raised"
       THEN /\ Fail("services", svcRet.exc)
            /\ UNCHANGED loc
       ELSE /\ loc' = [loc EXCEPT !.done = @ \cup {"services"},
                                  !.services = svcServices,
                                  !.names = KeysFrom(svcServices, 1, MaxSvcs)]
            /\ Advance("services")
    /\ ResetSvc
    /\ UNCHANGED <<co, log, hostVars, pmVars, infoVars, faultVars>>

\* analyze_security: verify_package for the next package of the listing
co_verify ==
    /\ call.pc = "verify"
    /\ IF call.k > Len(loc.listed)
       THEN /\ call' = [call EXCEPT !.pc = NextPc(call.op, "verify"), !.k = 1]
            /\ loc' = [loc EXCEPT !.done = @ \cup {"verify"}]
            /\ UNCHANGED faultVars
       ELSE LET pkg == loc.listed[call.k]
            IN \E oVerify \in VerifyOutcomes(dpkgDb, pkg), oSig \in Outcome :
                  LET r   == verify_package(oVerify, oSig)
                      sig == execute_command(oVerify) = "none"
                             /\ returncode(oVerify) = 0
                      run == <<oVerify, IF sig THEN oSig ELSE "none">>
                  IN /\ sig \/ oSig = "ok"
                     /\ Spend(Cost(run))
                     /\ IF r.raised # "none"
                        THEN /\ Fail("verify", r.raised)
                             /\ loc' = Begin(loc, "verify")
                        ELSE /\ loc' = [Begin(loc, "verify") EXCEPT
                                   !.package_security =
                                       [q \in (DOMAIN @) \cup {pkg} |->
                                           IF q = pkg THEN r.value ELSE @[q]],
                                   !.runs =
                                       [q \in (DOMAIN @) \cup {pkg} |->
                                           IF q = pkg THEN run ELSE @[q]]]
                             /\ call' = [call EXCEPT !.k = @ + 1]
    /\ UNCHANGED <<co, log, hostVars, pmVars, svcVars, infoVars>>

\* analyze_service_security for the next service of the listing, in both
\* operations: enumerate_all attaches the mapping to the service record,
\* analyze_security collects it by name
co_analysis ==
    /\ call.pc = "analysis"
    /\ IF call.k > Len(loc.names)
       THEN /\ call' = [call EXCEPT !.pc = NextPc(call.op, "analysis"), !.k = 1]
            /\ loc' = [loc EXCEPT !.done = @ \cup {"analysis"}]
            /\ UNCHANGED faultVars
       ELSE LET name == loc.names[call.k]
            IN \E run \in InfoRuns(macKind) :
                  LET r == analyze_service_security(name, hostSvc[name], macKind, run)
                  IN /\ Spend(Cost(run))
                     /\ IF r.raised # "none"
                        THEN /\ Fail("analysis", r.raised)
                             /\ loc' = Begin(loc, "analysis")
                        ELSE /\ loc' =
                                  IF call.op = "enumerate_all"
                                  THEN [Begin(loc, "analysis") EXCEPT
                                           !.services[name] =
                                           attach_security_analysis(@, r.checks)]
                                  ELSE [Begin(loc, "analysis") EXCEPT
                                           !.service_security =
                                           [q \in (DOMAIN @) \cup {name} |->
                                               IF q = name THEN r.checks ELSE @[q]]]
                             /\ call' = [call EXCEPT !.k = @ + 1]
    /\ UNCHANGED <<co, log, hostVars, pmVars, svcVars, infoVars>>

\* the operation returns: enumerate_all stores the services and converts the
\* result, analyze_security returns its three groupings, a narrow view
\* returns what its collector gave
co_return ==
    /\ call.pc = "return"
    /\ LET c      == call.coord
           result == IF assigns_result(call.op)
                     THEN [co[c].result EXCEPT !.services = loc.services]
                     ELSE co[c].result
           value  == call_value(call.op, result, loc)
       IN /\ co' = [co EXCEPT ![c].result = result]
          /\ log' = Append(log, LogEntry([kind |-> "returned", exc |-> "none",
                                          value |-> value], hostGen,
                                         [co[c] EXCEPT !.result = result]))
    /\ call' = NoCall
    /\ loc' = NoLoc
    /\ UNCHANGED <<hostVars, pmVars, svcVars, infoVars, faultVars>>

\* an exception was raised inside the operation
co_except ==
    /\ call.pc = "except"
    /\ log' = Append(log, LogEntry(call_failed(call.op, call.failed,
                                               co[call.coord].result), hostGen,
                                   co[call.coord]))
    /\ call' = NoCall
    /\ loc' = NoLoc
    /\ UNCHANGED <<co, hostVars, pmVars, svcVars, infoVars, faultVars>>

\* the host changes: a package is removed or installed, a unit changes, or
\* the process manager stops or resumes answering
HostChange ==
    /\ hostGen < MaxHostChanges
    /\ hostGen' = hostGen + 1
    /\ \/ /\ \E p \in Pkgs :
                dpkgDb' = [dpkgDb EXCEPT ![p] = IF @ = "installed" THEN "config-files"
                                                ELSE "installed"]
          /\ UNCHANGED <<hostSvc, systemctlFails>>
       \/ /\ \E s \in Svcs, h \in HostSvcChoices :
                /\ h # hostSvc[s]
                /\ hostSvc' = [hostSvc EXCEPT ![s] = h]
          /\ UNCHANGED <<dpkgDb, systemctlFails>>
       \/ /\ systemctlFails' = ~systemctlFails
          /\ UNCHANGED <<dpkgDb, hostSvc>>
    /\ UNCHANGED <<ctorVars, srcVars, dpkgQueryFails, macKind, files, ufw,
                   sshActive, sshdConfig, macConfig>>
    /\ UNCHANGED <<pmVars, svcVars, infoVars, faultVars, coVars>>

-----------------------------------------------------------------------------
(* AptPackageManager.verify_repository_sources                             *)

MaxSrcLines == 2

SrcPaths == {"/etc/apt/sources.list", "/etc/apt/sources.list.d/extra.list"}

\* the lines a source file is made of, in pieces no finer than the scan
\* needs: blanks, the comment sign and the two transports searched for
SrcLines ==
    {<<>>,
     <<" ">>,
     <<"#", " ", "deb ", "http://", "mirror/debian", " ", "stable main">>,
     <<" ", "#", " ", "deb ", "https://", "mirror/debian", " ", "stable main">>,
     <<"deb ", "https://", "mirror/debian", " ", "stable main">>,
     <<"deb ", "http://", "mirror/debian", " ", "stable main">>,
     <<" ", "deb ", "http://", "mirror/debian", " ", "stable main", " ">>,
     <<"deb ", "http://", "mirror/debian", " ", "stable main", " ", "#", " ",
       "https://", "wiki/mirrors">>,
     <<"deb ", "ftp://", "mirror/debian", " ", "stable main">>}

RECURSIVE SeqsUpTo(_, _)
SeqsUpTo(S, n) ==
    IF n = 0 THEN {<<>>}
    ELSE SeqsUpTo(S, n - 1)
         \cup {Append(q, x) : q \in {r \in SeqsUpTo(S, n - 1) : Len(r) = n - 1}, x \in S}

\* a path of the host: no file, or a file that can or cannot be opened
NoSrcFile == [exists |-> FALSE, readable |-> FALSE, lines |-> <<>>]

SrcFileChoices ==
    {NoSrcFile}
    \cup {[exists |-> TRUE, readable |-> FALSE, lines |-> <<>>]}
    \cup {[exists |-> TRUE, readable |-> TRUE, lines |-> ls] :
             ls \in SeqsUpTo(SrcLines, MaxSrcLines)}

Blank(piece) == piece \in {" ", "\t"}

\* str.strip, on a text given in pieces
RECURSIVE LStrip(_)
LStrip(line) ==
    IF line # <<>> /\ Blank(Head(line)) THEN LStrip(Tail(line)) ELSE line

RECURSIVE RStrip(_)
RStrip(line) ==
    IF line # <<>> /\ Blank(line[Len(line)])
    THEN RStrip(SubSeq(line, 1, Len(line) - 1))
    ELSE line

Strip(line) == RStrip(LStrip(line))

\* the test the scan makes on a line: it is not blank and not a comment
source_line_is_checked(line) ==
    /\ Strip(line) # <<>>
    /\ Head(Strip(line)) # "#"

\* the test that fails a line
source_line_is_rejected(line) ==
    /\ Contains(<<"http://">>, line)
    /\ ~Contains(<<"https://">>, line)

\* the loop of _verify_source_file over the lines from line i on
RECURSIVE scan_source_lines(_, _)
scan_source_lines(lines, i) ==
    IF i > Len(lines) THEN TRUE
    ELSE IF source_line_is_checked(lines[i]) /\ source_line_is_rejected(lines[i])
    THEN FALSE
    ELSE scan_source_lines(lines, i + 1)

\* AptPackageManager._verify_source_file: every exception gives False
verify_source_file(file) ==
    IF ~file.readable THEN FALSE
    ELSE scan_source_lines(file.lines, 1)

NoResults == [none |-> TRUE]

\* AptPackageManager.verify_repository_sources
verify_repository_sources(fs) ==
    [path \in {q \in SrcPaths : fs[q].exists} |-> verify_source_file(fs[path])]

\* a caller invokes verify_repository_sources: the whole call
VerifySources ==
    /\ srcResults = NoResults
    /\ srcResults' = verify_repository_sources(srcFiles)
    /\ UNCHANGED <<srcFiles, exceptSrc>>

-----------------------------------------------------------------------------
(* Initial states and specifications                                       *)

\* a host the coordinator can be constructed on, and nothing constructed yet
QuietCtor ==
    /\ platformSystem = "Linux"
    /\ osRelease = "debian"
    /\ dpkgStatusFile = TRUE
    /\ systemdRun = TRUE
    /\ enumerator = NoEnumerator
    /\ enumeratorUsed = FALSE

\* a package manager that executes nothing
QuietPm ==
    /\ pmPc = "idle"
    /\ pmOp = "none"
    /\ pmArg = 0
    /\ pmListed = FALSE
    /\ pmStdout = <<>>
    /\ pmI = 0
    /\ pmPackages = NoPackages
    /\ pmCmds = NoCmds
    /\ pmRet = NoRet

QuietHostPkg ==
    /\ dpkgDb = [p \in Pkgs |-> "installed"]
    /\ dpkgQueryFails = FALSE

\* a service enumerator that executes nothing
QuietSvc ==
    /\ svcPc = "idle"
    /\ svcOp = "none"
    /\ svcArg = 0
    /\ svcListCmd = "none"
    /\ svcStdout = <<>>
    /\ svcI = 0
    /\ svcServices = NoServices
    /\ svcChecks = NoChecks
    /\ svcLog = "none"
    /\ svcCmds = NoRun
    /\ svcRet = NoRet

QuietHostSvc ==
    /\ hostSvc = [s \in Svcs |->
                    [listed |-> TRUE, active |-> "active", user |-> "root",
                     unit |-> "hardened2", confined |-> TRUE]]
    /\ systemctlFails = FALSE
    /\ macKind = "apparmor"

QuietHostInfo ==
    /\ hostGen = 0
    /\ files = [f \in InfoFiles |-> "ok"]
    /\ ufw = "active"
    /\ sshActive = TRUE
    /\ sshdConfig = "no"
    /\ macConfig = [selinux |-> FALSE, apparmor |-> TRUE]

\* a gatherer that has collected nothing
QuietInfo ==
    /\ sysCache = NoSnapshot
    /\ infoLog = <<>>
    /\ secInfo = NoSecInfo

\* no source file on the host and no verification made
QuietSrc ==
    /\ srcFiles = [path \in SrcPaths |-> NoSrcFile]
    /\ srcResults = NoResults

\* no bound on the failing commands
Unbudgeted ==
    /\ budgeted = FALSE
    /\ faults = 0

\* two coordinators, constructed at time 0, and no call made
QuietCo ==
    /\ co = [c \in Coords |-> [cache |-> NoSnapshot, result |-> EnumerationResult(0)]]
    /\ call = NoCall
    /\ loc = NoLoc
    /\ log = <<>>

InitCtor ==
    /\ platformSystem \in PlatformNames
    /\ osRelease \in OsReleaseIds \cup {"missing", "noid"}
    /\ dpkgStatusFile \in BOOLEAN
    /\ systemdRun \in BOOLEAN
    /\ enumerator = NoEnumerator
    /\ enumeratorUsed = FALSE
    /\ QuietHostPkg
    /\ QuietPm
    /\ QuietSrc
    /\ QuietHostSvc
    /\ QuietSvc
    /\ QuietHostInfo
    /\ QuietInfo
    /\ Unbudgeted
    /\ QuietCo

NextCtor ==
    \/ Construct
    \/ UseEnumerator

SpecCtor == InitCtor /\ [][NextCtor]_vars

InitPkg ==
    /\ QuietCtor
    /\ dpkgDb \in [Pkgs -> DpkgStates \cup DescriptionKinds \cup {"absent"}]
    /\ dpkgQueryFails \in BOOLEAN
    /\ QuietPm
    /\ QuietSrc
    /\ QuietHostSvc
    /\ QuietSvc
    /\ QuietHostInfo
    /\ QuietInfo
    /\ Unbudgeted
    /\ QuietCo

NextPkg ==
    \/ PkgGetInstalled
    \/ pm_list
    \/ pm_loop
    \/ PkgVerify

SpecPkg == InitPkg /\ [][NextPkg]_vars

InitSvc ==
    /\ QuietCtor
    /\ QuietHostPkg
    /\ QuietPm
    /\ QuietSrc
    /\ hostSvc \in [Svcs -> HostSvcChoices]
    /\ systemctlFails \in BOOLEAN
    /\ macKind \in {"apparmor", "selinux", "none"}
    /\ QuietSvc
    /\ QuietHostInfo
    /\ QuietInfo
    /\ Unbudgeted
    /\ QuietCo

NextSvc ==
    \/ SvcGetAll
    \/ svc_list
    \/ svc_loop
    \/ SvcAnalyze

SpecSvc == InitSvc /\ [][NextSvc]_vars

InitInfo ==
    /\ QuietCtor
    /\ QuietHostPkg
    /\ QuietPm
    /\ QuietSrc
    /\ QuietHostSvc
    /\ QuietSvc
    /\ QuietHostInfo
    /\ QuietInfo
    /\ Unbudgeted
    /\ QuietCo

NextInfo ==
    \/ InfoHostChange
    \/ GetSystemInfo

SpecInfo == InitInfo /\ [][NextInfo]_vars

\* the hosts get_security_info is run on
InitSec ==
    /\ QuietCtor
    /\ QuietHostPkg
    /\ QuietPm
    /\ QuietSrc
    /\ QuietHostSvc
    /\ QuietSvc
    /\ hostGen = 0
    /\ files = [f \in InfoFiles |-> "ok"]
    /\ ufw \in {"active", "inactive", "absent"}
    /\ sshActive \in BOOLEAN
    /\ sshdConfig \in {"no", "yes", "missing", "denied"}
    /\ macConfig \in [selinux : BOOLEAN, apparmor : BOOLEAN]
    /\ QuietInfo
    /\ Unbudgeted
    /\ QuietCo

NextSec == GetSecurityInfo

SpecSec == InitSec /\ [][NextSec]_vars

InitSrc ==
    /\ QuietCtor
    /\ QuietHostPkg
    /\ QuietPm
    /\ srcFiles \in [SrcPaths -> SrcFileChoices]
    /\ srcResults = NoResults
    /\ QuietHostSvc
    /\ QuietSvc
    /\ QuietHostInfo
    /\ QuietInfo
    /\ Unbudgeted
    /\ QuietCo

NextSrc == VerifySources

SpecSrc == InitSrc /\ [][NextSrc]_vars

\* the coordinators on a host that is healthy or has one ailment: a
\* pseudo-file or the SSH daemon's configuration cannot be read, or the
\* package database cannot be listed
Init ==
    /\ QuietCtor
    /\ dpkgDb = [p \in Pkgs |-> "installed"]
    /\ QuietPm
    /\ QuietSrc
    /\ QuietHostSvc
    /\ QuietSvc
    /\ hostGen = 0
    /\ ufw = "active"
    /\ sshActive = TRUE
    /\ macConfig = [selinux |-> FALSE, apparmor |-> TRUE]
    /\ \E ailment \in {"none", "cpuinfo", "sshd_config", "dpkg"} :
          /\ files = [f \in InfoFiles |->
                         IF f = ailment THEN "denied" ELSE "ok"]
          /\ sshdConfig = IF ailment = "sshd_config" THEN "denied" ELSE "no"
          /\ dpkgQueryFails = (ailment = "dpkg")
    /\ QuietInfo
    /\ budgeted = TRUE
    /\ faults = 0
    /\ QuietCo

CoSteps ==
    \/ co_system_info
    \/ co_security_info
    \/ co_packages_call
    \/ pm_list
    \/ pm_loop
    \/ co_packages_ret
    \/ co_services_call
    \/ svc_list
    \/ svc_loop
    \/ co_services_ret
    \/ co_analysis
    \/ co_return
    \/ co_except

Next ==
    \/ EnumerateAll
    \/ CoSteps
    \/ HostChange

Spec == Init /\ [][Next]_vars

NextAnalyze ==
    \/ AnalyzeSecurity
    \/ co_security_info
    \/ co_packages_call
    \/ pm_list
    \/ pm_loop
    \/ co_packages_ret
    \/ co_services_call
    \/ svc_list
    \/ svc_loop
    \/ co_services_ret
    \/ co_verify
    \/ co_analysis
    \/ co_return
    \/ co_except
    \/ HostChange

SpecAnalyze == Init /\ [][NextAnalyze]_vars

\* the narrow views, before and after enumerate_all, on an unchanging host
NextViews ==
    \/ EnumerateAll
    \/ EnumeratePackages
    \/ EnumerateServices
    \/ CoSteps

SpecViews == Init /\ [][NextViews]_vars

-----------------------------------------------------------------------------
(* Claims about construction (SpecCtor)                                    *)

\* the host has no registered variant, in the claim's words
NoRegisteredVariant ==
    \/ platformSystem # "Linux"
    \/ osRelease \notin {"debian", "Debian", "ubuntu", "Ubuntu"}
    \/ ~dpkgStatusFile
    \/ ~systemdRun

-----------------------------------------------------------------------------
(* Claims about the package manager (SpecPkg)                              *)

\* the last word of a text: the pieces after its last blank
LastWord(text) ==
    LET blanks == {i \in 1 .. Len(text) : text[i] = " "}
        last   == CHOOSE i \in blanks \cup {0} : \A j \in blanks : j <= i
    IN SubSeq(text, last + 1, Len(text))

\* the packages of the listing whose reported state is "installed"
ReportedInstalled(stdout) ==
    {stdout[i][1] : i \in {j \in 1 .. Len(stdout) :
                              /\ Len(stdout[j]) = 6
                              /\ LastWord(stdout[j][4]) = <<"install", "ed">>}}

\* C3, as stated for the package listing: once the listing command has
\* succeeded, no outcome of a per-package size or signature query keeps
\* get_installed_packages from returning a mapping.
C3_ItemFailureNeverAborts ==
    (pmPc = "done" /\ pmOp = "get_installed_packages" /\ pmListed)
        => pmRet.kind = "returned"

\* C4, as stated: verify_package never raises; it returns true exactly when
\* the file-integrity command and the signature command both succeed.
C4_VerifyNeverRaises ==
    (pmPc = "done" /\ pmOp = "verify_package")
        => /\ pmRet.kind = "returned"
           /\ pmRet.flag <=> (pmCmds.verify = "ok" /\ pmCmds.sig = "ok")

\* C10, as stated: the mapping get_installed_packages returns has an entry
\* for a package if and only if its reported state is "installed".
C10_OnlyInstalled ==
    (pmPc = "done" /\ pmOp = "get_installed_packages" /\ pmRet.kind = "returned")
        => DOMAIN pmPackages = ReportedInstalled(pmStdout)

\* the lines of the listing that split into six fields
WellFormed(stdout) == {j \in 1 .. Len(stdout) : Len(stdout[j]) = 6}

\* C11: a line of the listing that does not split into six fields is
\* skipped: get_installed_packages raises only when one of its commands
\* failed, and the mapping it returns has exactly the packages of the
\* six-field lines whose status passes the test for "installed".
C11_MalformedLineSkipped ==
    (pmPc = "done" /\ pmOp = "get_installed_packages" /\ pmListed) =>
        /\ pmRet.kind = "raised" =>
              \/ execute_command(pmCmds.size) # "none"
              \/ pmCmds.sig = "oserror"
        /\ pmRet.kind = "returned" =>
              DOMAIN pmPackages =
                  {pmStdout[j][1] : j \in {k \in WellFormed(pmStdout) :
                                              status_is_installed(pmStdout[k][4])}}

\* a returned mapping from a listing with a malformed line before and
\* another after a well-formed line that has its entry
C11_Witness ==
    /\ pmPc = "done"
    /\ pmOp = "get_installed_packages"
    /\ pmRet.kind = "returned"
    /\ \E i, j, k \in 1 .. Len(pmStdout) :
          /\ i < j
          /\ j < k
          /\ i \notin WellFormed(pmStdout)
          /\ j \in WellFormed(pmStdout)
          /\ k \notin WellFormed(pmStdout)
          /\ pmStdout[j][1] \in DOMAIN pmPackages

-----------------------------------------------------------------------------
(* Claims about the service enumerator (SpecSvc)                           *)

\* C9, as stated: whenever the list command produces no listing (it exits
\* non-zero, times out or cannot be executed), get_all_services returns the
\* empty mapping and logs an error; it does not raise.
C9_ListFailureReturnsEmpty ==
    (svcPc = "done" /\ svcOp = "get_all_services" /\ svcListCmd # "ok")
        => /\ svcRet.kind = "returned"
           /\ svcServices = NoServices
           /\ svcLog = "error"

\* C9, amended: when the list command exits with a non-zero status,
\* get_all_services returns the empty mapping and logs an error; when the
\* list command times out or cannot be executed, the call raises
\* (RuntimeError, or the OSError of a tool that cannot be started).
C9_NonZeroListReturnsEmpty ==
    (svcPc = "done" /\ svcOp = "get_all_services")
        => /\ (svcListCmd = "nonzero")
                 => (svcRet.kind = "returned" /\ svcServices = NoServices
                     /\ svcLog = "error")
           /\ (svcListCmd \in {"timeout", "suberr"})
                 => svcRet = Raised("RuntimeError")
           /\ (svcListCmd = "oserror") => svcRet = Raised("OSError")

\* C9, witness: the list command exited non-zero on a host that has a
\* service unit, and the call returned the empty mapping.
C9_Witness ==
    /\ svcPc = "done"
    /\ svcOp = "get_all_services"
    /\ svcListCmd = "nonzero"
    /\ svcRet.kind = "returned"
    /\ svcServices = NoServices
    /\ \E s \in Svcs : hostSvc[s].listed

\* the unit file of host record h can be opened and read
UnitReadable(h) == h.unit \notin {"missing", "unreadable"}

\* C13, as stated: when every command of analyze_service_security exits
\* with status 0, the call returns, and each of the four directive checks is
\* true exactly when the unit file can be read and holds that directive; a
\* missing or unreadable unit file gives four false checks.
C13_DirectiveChecksDefaultFalse ==
    (/\ svcPc = "done"
     /\ svcOp = "analyze_service_security"
     /\ Cost(svcCmds) = 0) =>
        LET h    == hostSvc[svcArg]
            text == UnitText(h.unit)
        IN /\ svcRet.kind = "returned"
           /\ DOMAIN svcChecks = {"runs_as_root", "has_security_policy",
                                  "protected_mode", "private_tmp",
                                  "no_new_privileges", "restricted_namespaces"}
           /\ svcChecks.protected_mode <=>
                  (UnitReadable(h) /\ Contains(<<"ProtectSystem=", "strict">>, text))
           /\ svcChecks.private_tmp <=>
                  (UnitReadable(h) /\ Contains(<<"PrivateTmp=", "yes">>, text))
           /\ svcChecks.no_new_privileges <=>
                  (UnitReadable(h) /\ Contains(<<"NoNewPrivileges=", "yes">>, text))
           /\ svcChecks.restricted_namespaces <=>
                  (UnitReadable(h) /\ Contains(<<"RestrictNamespaces=", "yes">>, text))

\* the property query of the last _get_service_info gave no properties and
\* none of its other commands timed out or failed to run
NoPropertiesRun ==
    /\ svcCmds[1] = "nonzero"
    /\ \A i \in 2 .. 4 : svcCmds[i] \notin Fails

\* C15: a service whose property query yields no properties does not make
\* the call raise: the record get_all_services builds for it has status
\* "unknown", and analyze_service_security returns the six checks for it.
C15_AbsentServiceUnknown ==
    NoPropertiesRun =>
        /\ svcRet.kind # "raised"
        /\ svcOp = "get_all_services" =>
              svcServices[svcStdout[svcI - 1].unit].status = "unknown"
        /\ svcOp = "analyze_service_security" =>
              /\ svcRet.kind = "returned"
              /\ DOMAIN svcChecks = {"runs_as_root", "has_security_policy",
                                     "protected_mode", "private_tmp",
                                     "no_new_privileges", "restricted_namespaces"}
              /\ ~svcChecks.runs_as_root
              /\ ~svcChecks.protected_mode

\* the analysis returned for a name the process manager does not have
C15_Witness ==
    /\ NoPropertiesRun
    /\ svcOp = "analyze_service_security"
    /\ svcRet.kind = "returned"
    /\ ~hostSvc[svcArg].listed

-----------------------------------------------------------------------------
(* Claims about the system-information gatherer (SpecInfo)                 *)

\* C5: once a get_system_info call of a gatherer has returned, every later
\* call returns that same snapshot and makes no read of the host, whatever
\* has changed on the host in between.
C5_SnapshotComputedOnce ==
    \A i, j \in 1 .. Len(infoLog) :
        (i < j /\ infoLog[i].kind = "returned")
            => /\ infoLog[j].kind = "returned"
               /\ infoLog[j].value = infoLog[i].value
               /\ infoLog[j].reads = 0

\* C5, witness: a first call failed, a second returned a snapshot, and a
\* third was made after the host had changed again.
C5_Witness ==
    /\ Len(infoLog) >= 3
    /\ infoLog[1].kind = "raised"
    /\ infoLog[2].kind = "returned"
    /\ infoLog[3].kind = "returned"
    /\ infoLog[3].at # infoLog[2].at

\* the value a sub-collector is to give for a source in state st
Degraded(st, value, fallback) == IF st = "ok" THEN value ELSE fallback

\* C18: every get_system_info call that collects returns a snapshot in which
\* each field of a readable source has its normal value and each field of a
\* source that is missing, unreadable or without the expected content has
\* its empty, zero or "unknown" value; no source aborts the call.
C18_SubCollectorsDegrade ==
    [][(Len(infoLog') > Len(infoLog) /\ sysCache = NoSnapshot) =>
          LET e == infoLog'[Len(infoLog')]
          IN /\ e.kind = "returned"
             /\ e.value.distribution =
                    IF osRelease \in {"missing", "denied"} THEN "unknown"
                    ELSE get_distribution_id(osRelease)
             /\ e.value.cpu_info =
                    Degraded(files["cpuinfo"], "cpu attributes", "empty mapping")
             /\ e.value.memory_info =
                    Degraded(files["meminfo"], "memory sizes", "zero sizes")
             /\ e.value.users = Degraded(files["passwd"], "user list", "empty list")
             /\ e.value.uptime = Degraded(files["uptime"], hostGen, "unknown")
             /\ e.value.boot_time = Degraded(files["stat"], "btime", "epoch")]_vars

-----------------------------------------------------------------------------
(* Claims on the coordinator                                               *)

EnumerateAllSteps ==
    {"system_info", "security_info", "packages", "services", "analysis"}

Entries(op) == {i \in 1..Len(log) : log[i].op = op}

\* C1: a call of enumerate_all in which a step failed ends with that error
\* raised to the caller and no value; a value is returned only by a call
\* that completed all five steps.
C1_NoPartialAggregate ==
    \A i \in Entries("enumerate_all") :
        /\ (log[i].failed # "none" \/ log[i].done # EnumerateAllSteps) =>
              /\ log[i].kind = "raised"
              /\ log[i].exc = log[i].failed
              /\ log[i].value = NoValue
        /\ log[i].kind = "returned" =>
              /\ log[i].failed = "none"
              /\ log[i].done = EnumerateAllSteps

\* a call that failed after it had populated packages
C1_Witness ==
    \E i \in Entries("enumerate_all") :
        /\ log[i].kind = "raised"
        /\ "packages" \in log[i].done

SecurityChecks ==
    {"runs_as_root", "has_security_policy", "protected_mode", "private_tmp",
     "no_new_privileges", "restricted_namespaces"}

\* C2: in every value enumerate_all returns, each service record has a
\* security_analysis attached whose keys are exactly the six checks.
C2_EveryServiceAnalysed ==
    \A i \in Entries("enumerate_all") :
        log[i].kind = "returned" =>
            \A s \in DOMAIN log[i].value.services :
                /\ "security_analysis" \in DOMAIN log[i].value.services[s]
                /\ DOMAIN log[i].value.services[s].security_analysis = SecurityChecks

\* a returned result with a service whose unit file was scanned
C2_Witness ==
    \E i \in Entries("enumerate_all") :
        /\ log[i].kind = "returned"
        /\ \E s \in DOMAIN log[i].value.services :
              /\ "security_analysis" \in DOMAIN log[i].value.services[s]
              /\ log[i].value.services[s].security_analysis.protected_mode

Listed(e) == {e.listed[k] : k \in 1..Len(e.listed)}

\* C6: a call of analyze_security that returns took the package listing
\* once, package_security has exactly the packages of that listing, each
\* value is true exactly when both verification commands of that package
\* exited with status 0, and the two counts of the rate are those of the
\* listing.
C6_RateOverOneListing ==
    \A i \in Entries("analyze_security") :
        log[i].kind = "returned" =>
            LET ps == log[i].value.package_security
            IN /\ log[i].listings = 1
               /\ DOMAIN ps = Listed(log[i])
               /\ \A p \in DOMAIN ps : ps[p] = (log[i].runs[p] = <<"ok", "ok">>)
               /\ total_packages(ps) = Len(log[i].listed)
               /\ verified_packages(ps) =
                     Cardinality({p \in Listed(log[i]) : log[i].runs[p] = <<"ok", "ok">>})

\* a returned analysis during which the host changed and a listed package
\* did not verify
C6_Witness ==
    \E i \in Entries("analyze_security") :
        /\ log[i].kind = "returned"
        /\ log[i].gen0 # log[i].gen1
        /\ \E p \in DOMAIN log[i].value.package_security :
              ~log[i].value.package_security[p]
        /\ \E p \in DOMAIN log[i].value.package_security :
              log[i].value.package_security[p]

\* C7: two calls of enumerate_all that return, with no change of the host
\* from the start of the first to the end of the second, return the same
\* keys in packages, in services and in security_info.
C7_SameKeys ==
    \A i, j \in Entries("enumerate_all") :
        (/\ i < j
         /\ log[i].kind = "returned"
         /\ log[j].kind = "returned"
         /\ log[i].gen0 = log[j].gen1) =>
            /\ DOMAIN log[i].value.packages = DOMAIN log[j].value.packages
            /\ DOMAIN log[i].value.services = DOMAIN log[j].value.services
            /\ DOMAIN log[i].value.security_info = DOMAIN log[j].value.security_info

\* two runs on two coordinators against the same host, with packages and
\* services in the results
C7_Witness ==
    \E i, j \in Entries("enumerate_all") :
        /\ i < j
        /\ log[i].coord # log[j].coord
        /\ log[i].kind = "returned"
        /\ log[j].kind = "returned"
        /\ log[i].gen0 = log[j].gen1
        /\ DOMAIN log[j].value.packages # {}
        /\ DOMAIN log[j].value.services # {}


-----------------------------------------------------------------------------
(* Claims about the security checks of the host (SpecSec)                  *)

\* C14, as stated: in the mapping get_security_info returns, the firewall
\* check is true exactly when the firewall tool reports the firewall as
\* active; it is false when the tool reports inactive or is not installed.
C14_FirewallActive ==
    (secInfo # NoSecInfo /\ secInfo.raised = "none")
        => (secInfo.info.firewall_enabled <=> ufw = "active")

-----------------------------------------------------------------------------
(* Claims about the source files (SpecSrc)                                 *)

\* the line holds a reference to the plaintext transport
HasPlaintextReference(line) == Contains(<<"http://">>, line)

\* C12, as stated: a readable source file is marked false if and only if one
\* of its lines that is neither blank nor a comment holds a plaintext
\* transport reference, whatever else that line holds.
C12_PlaintextMarksUntrusted ==
    srcResults # NoResults =>
        \A path \in DOMAIN srcResults :
            srcFiles[path].readable =>
                (~srcResults[path] <=>
                    \E i \in 1 .. Len(srcFiles[path].lines) :
                        /\ source_line_is_checked(srcFiles[path].lines[i])
                        /\ HasPlaintextReference(srcFiles[path].lines[i]))


StepRank(step) ==
    CASE step = "system_info"   -> 1
      [] step = "security_info" -> 2
      [] step = "packages"      -> 3
      [] step = "services"      -> 4
      [] step = "analysis"      -> 5

\* the collectors of trace were invoked in the fixed order with none left
\* out, each after the earlier ones had completed, and none after the step
\* that failed
InFixedOrder(trace, done, failedStep) ==
    /\ \A i, j \in 1 .. Len(trace) :
          i < j => /\ StepRank(trace[i]) <= StepRank(trace[j])
                   /\ trace[i] = trace[j] => trace[i] = "analysis"
                   /\ trace[i] # trace[j] => trace[i] \in done
    /\ \A j \in 1 .. Len(trace) :
          \A r \in 1 .. (StepRank(trace[j]) - 1) :
              \E i \in 1 .. (j - 1) : StepRank(trace[i]) = r
    /\ failedStep # "none" =>
          /\ trace # <<>>
          /\ trace[Len(trace)] = failedStep
          /\ failedStep \notin done

\* C17: in every call of enumerate_all, ended or in progress, the
\* collectors are invoked in the order system-info, security-info, package
\* listing, service listing, per-service analysis; a step starts only after
\* the earlier steps have completed and none starts after a failure.
C17_FixedOrder ==
    /\ call.op = "enumerate_all" =>
          InFixedOrder(loc.trace, loc.done, call.failedStep)
    /\ \A i \in Entries("enumerate_all") :
          InFixedOrder(log[i].trace, log[i].done, log[i].failedStep)

\* a call that went through all five steps and one that failed at the
\* service listing
C17_Witness ==
    \E i, j \in Entries("enumerate_all") :
        /\ log[i].kind = "returned"
        /\ Len(log[i].trace) >= 6
        /\ log[j].failedStep = "services"

\* C19: of two successive enumerate_all calls on one coordinator that both
\* return, the second result's timestamp is not earlier than the start of
\* the second call.
C19_TimestampIsCaptureTime ==
    \A i, j \in Entries("enumerate_all") :
        (/\ i < j
         /\ log[i].coord = log[j].coord
         /\ log[i].kind = "returned"
         /\ log[j].kind = "returned")
            => log[j].value.timestamp >= log[j].t0

\* C20: in every result of enumerate_all, the first two checks attached to
\* a service record agree with that record: runs_as_root iff its user is
\* "root", has_security_policy iff its security_context is not empty.
C20_ChecksFromSameRecord ==
    \A i \in Entries("enumerate_all") :
        log[i].kind = "returned" =>
            \A s \in DOMAIN log[i].value.services :
                LET rec == log[i].value.services[s]
                IN /\ rec.security_analysis.runs_as_root <=> (rec.user = "root")
                   /\ rec.security_analysis.has_security_policy
                          <=> (rec.security_context # "")

-----------------------------------------------------------------------------
(* Claims about the narrow views (SpecViews)                               *)

\* what get_installed_packages gives on database db when every command
\* exits with status 0
RECURSIVE FreshPackagesFrom(_, _, _)
FreshPackagesFrom(packages, stdout, i) ==
    IF i > Len(stdout) THEN packages
    ELSE FreshPackagesFrom(
             installed_packages_line(packages, stdout[i], "ok", "ok").packages,
             stdout, i + 1)

FreshPackages(db) == FreshPackagesFrom(NoPackages, DpkgQueryStdout(db), 1)

\* what get_all_services gives on host records hs when every command exits
\* with status 0
FreshServices(hs, mac) ==
    [s \in {q \in Svcs : hs[q].listed} |->
        get_service_info(s, hs[s], mac, <<"ok", "ok", "ok", "none">>).info]

NarrowCollector(op) ==
    IF op = "enumerate_packages" THEN "packages" ELSE "services"

\* C16: a call of enumerate_packages or enumerate_services invokes its own
\* collector and no other, leaves the coordinator's stored result and
\* snapshot as they were, and, when no command failed, returns what that
\* collector gives on the host, whatever was called before.
C16_NarrowViews ==
    \A i \in Entries("enumerate_packages") \cup Entries("enumerate_services") :
        /\ log[i].trace = <<NarrowCollector(log[i].op)>>
        /\ log[i].stored1 = log[i].stored0
        /\ (log[i].kind = "returned" /\ log[i].faults = 0) =>
              log[i].value =
                  IF log[i].op = "enumerate_packages"
                  THEN [packages |-> FreshPackages(dpkgDb)]
                  ELSE [services |-> FreshServices(hostSvc, macKind)]

\* enumerate_packages returned on a coordinator whose enumerate_all had
\* returned before
C16_Witness ==
    \E i, j \in 1 .. Len(log) :
        /\ i < j
        /\ log[i].op = "enumerate_all"
        /\ log[i].kind = "returned"
        /\ log[j].op = "enumerate_packages"
        /\ log[j].kind = "returned"
        /\ log[j].coord = log[i].coord
        /\ log[j].value.packages # EmptyDict

=============================================================================
